---- MODULE Spec2Model ----
(***************************************************************************)
(* Model of the python_shorts notebooks.                                   *)
(*                                                                         *)
(*   caching_expensive_calculations (src/unnamed/part_001):                *)
(*     - invert_and_multiply, a function wrapped by functools.lru_cache()  *)
(*       with its cache_info() and cache_clear() operations;               *)
(*     - the three ExtendedFolder classes (no cache, hand-written cache,   *)
(*       lru_cache) with Analytics.get_dim_counts and get_noise_masks.     *)
(*   passing_data_around (src/passing_data_around.ipynb):                  *)
(*     - the training loops `for x, y in train_set` and                    *)
(*       `for *x, y in train_set`, and the starred assignments.            *)
(*                                                                         *)
(* Each notebook part has its own specification; the variables of the      *)
(* other parts stay at their initial values.                               *)
(***************************************************************************)
EXTENDS Integers, Sequences, FiniteSets, TLC

VARIABLES
    \* ---- invert_and_multiply and its lru_cache wrapper ----
    cache,      \* the wrapper's dict: key -> cached result
    order,      \* the wrapper's linked list of keys, least recently used first
    hits,       \* the wrapper's hit counter
    misses,     \* the wrapper's miss counter
    nCalls,     \* history: calls of invert_and_multiply since the last cache_clear
    nExec,      \* history: executions of the function body since the last cache_clear
    seen,       \* history: arguments passed in a call since the last cache_clear
    usedSince,  \* history: for each such argument, the arguments passed since its latest call
    log,        \* history: the most recent operations, oldest first (at most LogLen)
    info,       \* the value the most recent cache_info() returned
    arr_A,      \* the global array the body of invert_and_multiply reads
    computed,   \* history: what the body last computed for each of the notebook's arguments
    \* ---- the ExtendedFolder classes ----
    _img_dims,  \* hand-written cache: each instance's self._img_dims
    dimsCache,  \* lru_cache version: the dict of get_img_dims' wrapper, keyed by self
    dimsOrder,  \* lru_cache version: the wrapper's linked list of keys
    sleeps,     \* history: executions of the expensive body, per class and instance
    gets,       \* history: the get_img_dims calls, per class and instance
    \* ---- the loops and assignments of passing_data_around ----
    prog,       \* the statement being run: its targets, its iterable, its body
    it,         \* the elements the loop's iterator has still to yield
    pc,         \* "iter", "body", "assign", "done" or "error"
    env,        \* the names bound so far: single names and starred names
    calls,      \* the argument tuples the model's forward has received, in order
    err         \* the exception that ended the statement, or None

memoVars == <<cache, order, hits, misses, nCalls, nExec, seen, usedSince, log, info,
              arr_A, computed>>

folderVars == <<_img_dims, dimsCache, dimsOrder, sleeps, gets>>

unpackVars == <<prog, it, pc, env, calls, err>>

vars == <<memoVars, folderVars, unpackVars>>

\* Python's None.
None == "None"

(***************************************************************************)
(* Bounds of the model.                                                    *)
(***************************************************************************)
\* Calls of invert_and_multiply between two cache_clear calls (Spec).
MaxCalls == 5
\* Operations remembered in log.
LogLen == 4
\* Distinct arguments beyond maxsize that SpecSweep passes.
ExtraArgs == 2
\* Calls that repeat an earlier argument in SpecSweep.
MaxRecalls == 2
\* Calls of get_dim_counts and get_noise_masks over all classes and instances.
MaxFolderOps == 5
\* Arrays zipped into a train_set.
MaxCols == 3
\* Length of the lists that are unpacked (the notebook's own lists are added).
MaxLen == 3

(***************************************************************************)
(* functools.lru_cache() around invert_and_multiply.                       *)
(***************************************************************************)
\* lru_cache() is applied without arguments: the default maxsize, which
\* cache_info() reports.
maxsize == 128

\* The arguments the notebook passes.
Coeffs == {2, 5}

\* The values np.random.rand(1000, 1000) can give the global arr_A: two
\* distinct arrays stand for all of them.
ArrValues == {"A0", "A1"}

\* np.linalg.inv(arr) * coeff: the product is determined by the array and the
\* coefficient, and differs when either differs.
Product(arr, coeff) == [inv |-> arr, coeff |-> coeff]

\* The body of invert_and_multiply: it computes inv(arr_A) * coeff and has no
\* return statement, so every call of the body returns None.
invert_and_multiply(coeff) == None

\* Mutant of make_key: every argument is cached under one key.
make_key_constant(arg) == 0

\* The key a call is cached under: the single positional argument itself.
make_key(arg) == arg

\* Mutant of CacheHit: the lookup never finds the key.
CacheHitNever(c, key) == FALSE

\* Whether the wrapper finds the key in its dict.
CacheHit(c, key) == key \in DOMAIN c

\* Mutant of MoveToEnd: a hit leaves the list as it is (first in, first out).
MoveToEndNot(ord, key) == ord

\* The linked list once key has been moved to the most recently used end.
MoveToEnd(ord, key) == SelectSeq(ord, LAMBDA k : k # key) \o <<key>>

\* The dict without the keys old and with key new bound to result.
Replace(c, old, new, result) ==
    [k \in (DOMAIN c \ old) \cup {new} |-> IF k = new THEN result ELSE c[k]]

\* One call through an lru_cache() wrapper whose dict is c and whose linked list
\* is ord: a hit returns the cached result and moves the key to the most
\* recently used end; a miss runs the wrapped function (its result is result),
\* evicts the least recently used key when the cache is full, and stores the
\* result.  ran counts the executions of the wrapped function.
LruCall(c, ord, key, result) ==
    IF CacheHit(c, key)
    THEN [cache |-> c, order |-> MoveToEnd(ord, key), ran |-> 0, ret |-> c[key]]
    ELSE LET full == Len(ord) >= maxsize
             evicted == IF full THEN {Head(ord)} ELSE {}
         IN  [cache |-> Replace(c, evicted, key, result),
              order |-> Append(IF full THEN Tail(ord) ELSE ord, key),
              ran |-> 1, ret |-> result]

\* The sliding window of the most recent operations.
Logged(entry) ==
    IF Len(log) < LogLen THEN Append(log, entry) ELSE Append(Tail(log), entry)

Last == IF log = <<>> THEN [op |-> "init", arg |-> 0, ran |-> 0, ret |-> None]
        ELSE log[Len(log)]

\* invert_and_multiply(coeff) through the wrapper.
Call(coeff) ==
    LET r == LruCall(cache, order, make_key(coeff), invert_and_multiply(coeff)) IN
    /\ cache' = r.cache
    /\ order' = r.order
    /\ hits' = hits + (1 - r.ran)
    /\ misses' = misses + r.ran
    /\ nExec' = nExec + r.ran
    /\ nCalls' = nCalls + 1
    /\ seen' = seen \cup {coeff}
    /\ usedSince' = [a \in seen \cup {coeff} |->
                        IF a = coeff THEN {} ELSE usedSince[a] \cup {coeff}]
    /\ log' = Logged([op |-> "call", arg |-> coeff, ran |-> r.ran, ret |-> r.ret])
    /\ computed' = IF r.ran = 1 /\ coeff \in Coeffs
                      THEN [a \in DOMAIN computed \cup {coeff} |->
                              IF a = coeff THEN Product(arr_A, coeff) ELSE computed[a]]
                      ELSE computed
    /\ UNCHANGED <<info, arr_A>>

\* Mutant of CacheInfo: the two counters change places.
CacheInfoSwapped ==
    [hits |-> misses, misses |-> hits, maxsize |-> maxsize,
     currsize |-> Cardinality(DOMAIN cache)]

\* The named tuple cache_info() builds.
CacheInfo ==
    [hits |-> hits, misses |-> misses, maxsize |-> maxsize,
     currsize |-> Cardinality(DOMAIN cache)]

\* invert_and_multiply.cache_info()
Info ==
    /\ info' = CacheInfo
    /\ log' = Logged([op |-> "info", arg |-> 0, ran |-> 0, ret |-> None])
    /\ UNCHANGED <<cache, order, hits, misses, nCalls, nExec, seen, usedSince, arr_A, computed>>

\* Mutant of Clear: the counters are reset and the entries are kept.
ClearKeepsEntries ==
    /\ hits' = 0
    /\ misses' = 0
    /\ nCalls' = 0
    /\ nExec' = 0
    /\ seen' = {}
    /\ usedSince' = <<>>
    /\ computed' = <<>>
    /\ log' = Logged([op |-> "clear", arg |-> 0, ran |-> 0, ret |-> None])
    /\ UNCHANGED <<cache, order, info, arr_A>>

\* invert_and_multiply.cache_clear()
Clear ==
    /\ cache' = <<>>
    /\ order' = <<>>
    /\ hits' = 0
    /\ misses' = 0
    /\ nCalls' = 0
    /\ nExec' = 0
    /\ seen' = {}
    /\ usedSince' = <<>>
    /\ computed' = <<>>
    /\ log' = Logged([op |-> "clear", arg |-> 0, ran |-> 0, ret |-> None])
    /\ UNCHANGED <<info, arr_A>>

\* Mutant of SetArrA: the assignment also empties the cache.
SetArrAInvalidates(v) ==
    /\ v # arr_A
    /\ arr_A' = v
    /\ cache' = <<>>
    /\ order' = <<>>
    /\ UNCHANGED <<hits, misses, nCalls, nExec, seen, usedSince, log, info, computed>>

\* An assignment to the global arr_A with a new array v; the wrapper and its
\* cache are not involved.
SetArrA(v) ==
    /\ v # arr_A
    /\ arr_A' = v
    /\ UNCHANGED <<cache, order, hits, misses, nCalls, nExec, seen, usedSince, log, info,
                   computed>>

InitMemo ==
    /\ cache = <<>>
    /\ order = <<>>
    /\ hits = 0
    /\ misses = 0
    /\ nCalls = 0
    /\ nExec = 0
    /\ seen = {}
    /\ usedSince = <<>>
    /\ log = <<>>
    /\ info = None
    /\ arr_A = "A0"
    /\ computed = <<>>

(***************************************************************************)
(* The three versions of ExtendedFolder, with Analytics and                *)
(* get_noise_masks.                                                        *)
(***************************************************************************)
\* The class definitions of cells 2, 4 and 6.
Impls == {"plain", "manual", "lru"}

\* ExtendedFolder instances (each cell builds a new one).
Datasets == {"d1", "d2"}

\* The list literal the expensive body returns.
IMG_DIMS == << <<10, 20>>, <<10, 20>>, <<40, 40>> >>

\* The list object the n-th execution of the body on instance d builds.
NewList(d, n) == [obj |-> <<d, n>>, items |-> IMG_DIMS]

\* An attribute that holds None or a list object: <<>> for None, <<list>> for
\* the list.
NoneAttr == <<>>
ListAttr(list) == <<list>>

\* Python's truth value of None or a list: a non-empty list is true.
Truthy(v) == v # NoneAttr /\ v[1].items # <<>>

\* ExtendedFolder.get_img_dims of cell 2: no cache.
get_img_dims_plain(d) ==
    LET n == sleeps["plain"][d] + 1 IN
    [ran |-> 1, ret |-> NewList(d, n),
     attr |-> _img_dims, cache |-> dimsCache, order |-> dimsOrder]

\* Mutant of get_img_dims_manual: the computed list is not kept in
\* self._img_dims.
get_img_dims_manual_unkept(d) ==
    LET n == sleeps["manual"][d] + 1 IN
    IF ~Truthy(_img_dims[d])
    THEN [ran |-> 1, ret |-> NewList(d, n),
          attr |-> _img_dims, cache |-> dimsCache, order |-> dimsOrder]
    ELSE [ran |-> 0, ret |-> _img_dims[d][1],
          attr |-> _img_dims, cache |-> dimsCache, order |-> dimsOrder]

\* ExtendedFolder.get_img_dims of cell 4: the hand-written cache.
get_img_dims_manual(d) ==
    LET n == sleeps["manual"][d] + 1 IN
    IF ~Truthy(_img_dims[d])
    THEN [ran |-> 1, ret |-> NewList(d, n),
          attr |-> [_img_dims EXCEPT ![d] = ListAttr(NewList(d, n))],
          cache |-> dimsCache, order |-> dimsOrder]
    ELSE [ran |-> 0, ret |-> _img_dims[d][1],
          attr |-> _img_dims, cache |-> dimsCache, order |-> dimsOrder]

\* Mutant of get_img_dims_lru: the decorator is missing.
get_img_dims_undecorated(d) ==
    LET n == sleeps["lru"][d] + 1 IN
    [ran |-> 1, ret |-> NewList(d, n),
     attr |-> _img_dims, cache |-> dimsCache, order |-> dimsOrder]

\* ExtendedFolder.get_img_dims of cell 6: decorated with lru_cache(); the only
\* argument is self.
get_img_dims_lru(d) ==
    LET n == sleeps["lru"][d] + 1
        r == LruCall(dimsCache, dimsOrder, make_key(d), NewList(d, n))
    IN  [ran |-> r.ran, ret |-> r.ret,
         attr |-> _img_dims, cache |-> r.cache, order |-> r.order]

get_img_dims(v, d) ==
    CASE v = "plain"  -> get_img_dims_plain(d)
      [] v = "manual" -> get_img_dims_manual(d)
      [] v = "lru"    -> get_img_dims_lru(d)

\* collections.Counter over a list: each element is counted as it is met.
RECURSIVE Counter(_)
Counter(list) ==
    IF list = <<>> THEN <<>>
    ELSE LET c == Counter(SubSeq(list, 1, Len(list) - 1))
             e == list[Len(list)]
         IN  IF e \in DOMAIN c
             THEN [c EXCEPT ![e] = @ + 1]
             ELSE [k \in DOMAIN c \cup {e} |-> IF k = e THEN 1 ELSE c[k]]

\* get_noise_masks: one random array per dimension; the model keeps its shape.
get_noise_masks(dims) == [i \in DOMAIN dims |-> [shape |-> dims[i]]]

\* What an operation computes from the list get_img_dims returned.
Out(op, dims) ==
    CASE op = "counts" -> Counter(dims)
      [] op = "masks"  -> get_noise_masks(dims)

\* A call of dataset.get_img_dims() on instance d of class version v, made by
\* operation op, whose result out is computed from the returned list.
Get(v, d, op) ==
    LET r == get_img_dims(v, d) IN
    /\ _img_dims' = r.attr
    /\ dimsCache' = r.cache
    /\ dimsOrder' = r.order
    /\ sleeps' = [sleeps EXCEPT ![v][d] = @ + r.ran]
    /\ gets' = [gets EXCEPT ![v][d] =
                   Append(@, [op |-> op, ran |-> r.ran, ret |-> r.ret,
                              out |-> Out(op, r.ret.items)])]

\* analytics.get_dim_counts()
GetDimCounts(v, d) == Get(v, d, "counts")

\* get_noise_masks(dataset.get_img_dims())
GetNoiseMasks(v, d) == Get(v, d, "masks")

InitFolder ==
    /\ _img_dims = [d \in Datasets |-> NoneAttr]
    /\ dimsCache = <<>>
    /\ dimsOrder = <<>>
    /\ sleeps = [v \in Impls |-> [d \in Datasets |-> 0]]
    /\ gets = [v \in Impls |-> [d \in Datasets |-> <<>>]]

RECURSIVE SumOver(_, _)
SumOver(f, S) ==
    IF S = {} THEN 0
    ELSE LET x == CHOOSE y \in S : TRUE IN f[x] + SumOver(f, S \ {x})

\* The get_img_dims calls made so far.
FolderOps ==
    SumOver([p \in Impls \X Datasets |-> Len(gets[p[1]][p[2]])], Impls \X Datasets)

(***************************************************************************)
(* passing_data_around: sequence unpacking, the training loops.            *)
(***************************************************************************)
\* str() of a small integer.
ToStr(i) == <<"0", "1", "2", "3", "4", "5", "6", "7", "8", "9">>[i + 1]

\* The arrays of cells 1 and 2, row by row (xs holds the same rows as
\* cont_values).
cont_values == <<"[1.7]", "[0.3]">>
embedding_idxs == <<"[1]", "[3]">>
ys == <<"[2]", "[4]">>
Columns == {cont_values, embedding_idxs, ys}

\* The items of the lists of cells 4 to 7.
Items == {"first", "0", "1", "2", "3", "4", "last"}

\* The targets of the notebook's statements: the names before the starred
\* name, the starred name ("" when there is none), the names after it.
T_x_y == [before |-> <<"x", "y">>, star |-> "", after |-> <<>>]
T_star_x_y == [before |-> <<>>, star |-> "x", after |-> <<"y">>]
T_all_but_last == [before |-> <<>>, star |-> "all_but_last", after |-> <<"last">>]
T_frst_mid_last == [before |-> <<"frst">>, star |-> "mid", after |-> <<"last">>]
T_everything == [before |-> <<>>, star |-> "everything", after |-> <<>>]

Min(a, b) == IF a < b THEN a ELSE b

\* zip(*cols): the i-th tuple holds the i-th row of every array; it stops with
\* the shortest array.
RECURSIVE ShortestLen(_)
ShortestLen(cols) ==
    IF Len(cols) = 1 THEN Len(cols[1])
    ELSE Min(Len(cols[1]), ShortestLen(Tail(cols)))

Zip(cols) ==
    [i \in 1 .. ShortestLen(cols) |-> [c \in 1 .. Len(cols) |-> cols[c][i]]]

\* range(n)
RangeItems(n) == [i \in 1 .. n |-> ToStr(i - 1)]

\* Mutant of GenItems: the generator stops one item early.
GenItemsShort(src, pos) == SubSeq(src, pos, Len(src) - 1)

\* The generator expression (item for item in src): it asks src for its next
\* item and yields it, until src is exhausted.
RECURSIVE GenItems(_, _)
GenItems(src, pos) ==
    IF pos > Len(src) THEN <<>>
    ELSE <<src[pos]>> \o GenItems(src, pos + 1)

\* The items an iterable yields.
Iterate(itb) ==
    CASE itb.kind = "list"  -> itb.data
      [] itb.kind = "gen"   -> GenItems(itb.data, 1)
      [] itb.kind = "range" -> RangeItems(itb.n)
      [] itb.kind = "zip"   -> Zip(itb.data)

\* The names of a target bound to single items, in order.
SingleNames(tgt) == tgt.before \o tgt.after

\* Mutant of StarPart: the starred name keeps the items of the names after it.
StarPartAll(rest, nafter) == rest

\* The list a starred target collects: what is left of rest once the last
\* nafter items have gone to the names after the star.
StarPart(rest, nafter) == SubSeq(rest, 1, Len(rest) - nafter)

\* The items that go to the names after the star.
AfterPart(rest, nafter) == SubSeq(rest, Len(rest) - nafter + 1, Len(rest))

\* Mutant of TooMany: surplus items are ignored.
TooManyNever(n, names) == FALSE

\* Without a starred name, an iterable that yields one item more than there are
\* names is refused.
TooMany(n, names) == n > names

\* Unpacking the items of one iterable into a target.
Unpack(items, tgt) ==
    LET nb == Len(tgt.before)
        na == Len(tgt.after)
        n == Len(items)
        rest == SubSeq(items, nb + 1, n)
        fail(msg) == [ok |-> FALSE, single |-> <<>>, star |-> <<>>, err |-> msg]
    IN
    IF tgt.star = ""
    THEN IF n < nb
         THEN fail("ValueError: not enough values to unpack (expected "
                   \o ToStr(nb) \o ", got " \o ToStr(n) \o ")")
         ELSE IF TooMany(n, nb)
         THEN fail("ValueError: too many values to unpack (expected "
                   \o ToStr(nb) \o ")")
         ELSE [ok |-> TRUE,
               single |-> SubSeq(items, 1, nb),
               star |-> <<>>, err |-> None]
    ELSE IF n < nb + na
         THEN fail("ValueError: not enough values to unpack (expected at least "
                   \o ToStr(nb + na) \o ", got " \o ToStr(n) \o ")")
         ELSE [ok |-> TRUE,
               single |-> SubSeq(items, 1, nb) \o AfterPart(rest, na),
               star |-> StarPart(rest, na), err |-> None]

\* The names bound by a successful unpacking: single[name] is an item and
\* star[name] a list.
Bind(tgt, u) ==
    [single |-> [nm \in {SingleNames(tgt)[i] : i \in 1 .. Len(SingleNames(tgt))} |->
                    u.single[CHOOSE i \in 1 .. Len(SingleNames(tgt)) :
                                SingleNames(tgt)[i] = nm]],
     star |-> IF tgt.star = "" THEN <<>>
              ELSE [nm \in {tgt.star} |-> u.star]]

NoEnv == [single |-> <<>>, star |-> <<>>]

\* The parameters of forward: Model of cell 1, EmbeddingModel of cell 2.
Params(model) ==
    CASE model = "Model" -> <<"x", "y">>
      [] model = "EmbeddingModel" -> <<"cont", "idx", "y">>

\* Mutant of StarArgs: y is passed first.
StarArgsYFirst(xs, y) == <<y>> \o xs

\* The arguments of the call in the loop body: m(x, y), or em(*x, y).
StarArgs(xs, y) == xs \o <<y>>

CallArgs(body) ==
    CASE body = "call"      -> <<env.single["x"], env.single["y"]>>
      [] body = "call_star" -> StarArgs(env.star["x"], env.single["y"])

\* The for statement asks its iterator for the next element and unpacks it into
\* the targets.
ForNext ==
    /\ pc = "iter"
    /\ it # <<>>
    /\ LET u == Unpack(Iterate([kind |-> "list", data |-> Head(it), n |-> 0]),
                       prog.target)
       IN  IF u.ok
           THEN /\ env' = Bind(prog.target, u)
                /\ pc' = "body"
                /\ err' = err
           ELSE /\ err' = u.err
                /\ pc' = "error"
                /\ env' = env
    /\ it' = Tail(it)
    /\ UNCHANGED <<prog, calls>>

\* The iterator is exhausted: the for statement ends.
ForEnd ==
    /\ pc = "iter"
    /\ it = <<>>
    /\ pc' = "done"
    /\ UNCHANGED <<prog, it, env, calls, err>>

\* The loop body: the call of the model (forward prints its arguments), or pass.
ForBody ==
    /\ pc = "body"
    /\ IF prog.body = "pass"
       THEN pc' = "iter" /\ UNCHANGED <<calls, err>>
       ELSE LET args == CallArgs(prog.body) IN
            IF Len(args) = Len(Params(prog.model))
            THEN /\ calls' = Append(calls, args)
                 /\ pc' = "iter"
                 /\ err' = err
            ELSE /\ err' = "TypeError: forward() takes " \o
                           ToStr(Len(Params(prog.model))) \o
                           " arguments, " \o ToStr(Len(args)) \o " given"
                 /\ pc' = "error"
                 /\ calls' = calls
    /\ UNCHANGED <<prog, it, env>>

\* An assignment statement with a target list: targets = iterable.
Assign ==
    /\ pc = "assign"
    /\ LET u == Unpack(Iterate(prog.iterable), prog.target) IN
       IF u.ok
       THEN env' = Bind(prog.target, u) /\ pc' = "done" /\ err' = err
       ELSE err' = u.err /\ pc' = "error" /\ env' = env
    /\ UNCHANGED <<prog, it, calls>>

\* Sequences over S of length at most n.
SeqsUpTo(S, n) == UNION {[1 .. k -> S] : k \in 0 .. n}

\* The lists unpacked: every short list, and the lists the notebook writes.
Lists ==
    SeqsUpTo(Items, MaxLen)
        \cup { <<"0", "1", "2", "3", "last">>, <<"first", "0", "1", "2", "last">> }

\* Training loops: train_set = zip(...) of up to MaxCols arrays, the loop
\* `for x, y in train_set: m(x, y)` or `for *x, y in train_set: m(*x, y)`,
\* and either model.
TrainLoops ==
    { [kind |-> "for", target |-> l[1], body |-> l[2], model |-> m,
       iterable |-> [kind |-> "zip", data |-> cols, n |-> 0]] :
         l \in { <<T_x_y, "call">>, <<T_star_x_y, "call_star">> },
         m \in {"Model", "EmbeddingModel"},
         cols \in UNION {[1 .. k -> Columns] : k \in 1 .. MaxCols} }

\* `for *all_but_last, last in lst: pass` with lst a list holding one list.
ListLoops ==
    { [kind |-> "for", target |-> T_all_but_last, body |-> "pass", model |-> "",
       iterable |-> [kind |-> "list", data |-> <<l>>, n |-> 0]] : l \in Lists }

\* `frst, *mid, last = it` and `*everything, = it` with it a list, a generator
\* over a list, or a range.
Assigns ==
    { [kind |-> "assign", target |-> t, body |-> "", model |-> "",
       iterable |-> i] :
         t \in {T_frst_mid_last, T_everything},
         i \in { [kind |-> k, data |-> l, n |-> 0] :
                    k \in {"list", "gen"}, l \in Lists }
               \cup { [kind |-> "range", data |-> <<>>, n |-> m] :
                         m \in 0 .. (MaxLen + 2) } }

StartOf(p) ==
    /\ prog = p
    /\ it = (IF p.kind = "for" THEN Iterate(p.iterable) ELSE <<>>)
    /\ pc = (IF p.kind = "for" THEN "iter" ELSE "assign")
    /\ env = NoEnv
    /\ calls = <<>>
    /\ err = None

InitUnpack ==
    \/ \E p \in TrainLoops : StartOf(p)
    \/ \E p \in ListLoops : StartOf(p)
    \/ \E p \in Assigns : StartOf(p)

\* No statement of passing_data_around is running.
IdleUnpack ==
    /\ prog = [kind |-> "none"]
    /\ it = <<>>
    /\ pc = "done"
    /\ env = NoEnv
    /\ calls = <<>>
    /\ err = None

Init == InitMemo /\ InitFolder /\ IdleUnpack

\* The notebook's session: calls with its arguments, cache_info and cache_clear
\* in any order.
Next ==
    \/ \E coeff \in Coeffs : nCalls < MaxCalls /\ Call(coeff) /\ UNCHANGED <<folderVars, unpackVars>>
    \/ Info /\ UNCHANGED <<folderVars, unpackVars>>
    \/ Clear /\ UNCHANGED <<folderVars, unpackVars>>

Spec == Init /\ [][Next]_vars

NextFolder ==
    \/ \E v \in Impls, d \in Datasets :
          FolderOps < MaxFolderOps /\ GetDimCounts(v, d) /\ UNCHANGED <<memoVars, unpackVars>>
    \/ \E v \in Impls, d \in Datasets :
          FolderOps < MaxFolderOps /\ GetNoiseMasks(v, d) /\ UNCHANGED <<memoVars, unpackVars>>

SpecFolder == Init /\ [][NextFolder]_vars

InitU == InitMemo /\ InitFolder /\ InitUnpack

NextUnpack ==
    \/ ForNext /\ UNCHANGED <<memoVars, folderVars>>
    \/ ForBody /\ UNCHANGED <<memoVars, folderVars>>
    \/ ForEnd /\ UNCHANGED <<memoVars, folderVars>>
    \/ Assign /\ UNCHANGED <<memoVars, folderVars>>

SpecUnpack == InitU /\ [][NextUnpack]_vars

(***************************************************************************)
(* A session that passes more distinct arguments than the cache holds:     *)
(* new arguments 1, 2, 3, ... in increasing order, and repeated calls with *)
(* the notebook's argument 2.                                              *)
(***************************************************************************)
SweepCoeffs == 1 .. (maxsize + ExtraArgs)

NewCoeffs == SweepCoeffs \ seen

NextSweep ==
    \/ /\ NewCoeffs # {}
       /\ Call(CHOOSE c \in NewCoeffs : \A d \in NewCoeffs : c <= d)
       /\ UNCHANGED <<folderVars, unpackVars>>
    \/ /\ 2 \in seen
       /\ nCalls - Cardinality(seen) < MaxRecalls
       /\ Call(2)
       /\ UNCHANGED <<folderVars, unpackVars>>

SpecSweep == Init /\ [][NextSweep]_vars

(***************************************************************************)
(* The sweep session with cache_clear and with assignments to arr_A in     *)
(* between the calls.                                                      *)
(***************************************************************************)
NextStale ==
    \/ /\ NewCoeffs # {}
       /\ Call(CHOOSE c \in NewCoeffs : \A d \in NewCoeffs : c <= d)
       /\ UNCHANGED <<folderVars, unpackVars>>
    \/ /\ 2 \in seen
       /\ nCalls - Cardinality(seen) < MaxRecalls
       /\ Call(2)
       /\ UNCHANGED <<folderVars, unpackVars>>
    \/ \E v \in ArrValues : SetArrA(v) /\ UNCHANGED <<folderVars, unpackVars>>
    \/ Clear /\ UNCHANGED <<folderVars, unpackVars>>

SpecStale == Init /\ [][NextStale]_vars

(***************************************************************************)
(* Properties of the memoized invert_and_multiply.                         *)
(***************************************************************************)
\* A step that is a call of invert_and_multiply with argument a.
CallOf(a) == nCalls' = nCalls + 1 /\ Last'.op = "call" /\ Last'.arg = a

\* The log ends with the operations ops, given as <<op, arg>> pairs.
LogEnds(ops) ==
    /\ Len(log) >= Len(ops)
    /\ \A i \in DOMAIN ops :
          LET e == log[Len(log) - Len(ops) + i] IN
          e.op = ops[i][1] /\ e.arg = ops[i][2]

Range(s) == {s[i] : i \in DOMAIN s}

\* C1 as stated: every call whose argument was passed in an earlier call
\* returns without executing the body, and every call with an argument not
\* passed before executes the body once and stores its result.
C1_SeenIsHit ==
    [][\A a \in SweepCoeffs :
          CallOf(a) =>
             IF a \in seen
             THEN nExec' = nExec /\ Last'.ran = 0
             ELSE nExec' = nExec + 1 /\ Last'.ran = 1 /\ a \in DOMAIN cache'
      ]_vars

\* C1, amended: a call whose argument is held in the cache (passed earlier and
\* not evicted since) returns the cached result without executing the body and
\* leaves the cached results as they are; a call whose argument is not held in
\* the cache executes the body exactly once and stores its result under that
\* argument.
C1_CachedIsHit ==
    [][\A a \in SweepCoeffs :
          CallOf(a) =>
             IF a \in DOMAIN cache
             THEN /\ nExec' = nExec
                  /\ Last'.ran = 0
                  /\ Last'.ret = cache[a]
                  /\ cache' = cache
             ELSE /\ nExec' = nExec + 1
                  /\ Last'.ran = 1
                  /\ a \in DOMAIN cache'
                  /\ cache'[a] = Last'.ret
      ]_vars

\* A hit has happened, and the last call executed the body for an argument
\* that had been passed before (it had been evicted).
C1_Witness ==
    /\ Last.op = "call"
    /\ Last.ran = 1
    /\ hits > 0
    /\ nExec > Cardinality(seen)

\* C2: after cache_clear() the cache is empty and the counters are zero, and
\* the next call, whatever its argument, executes the body and is counted as a
\* miss.
C2_ClearThenMiss ==
    /\ Last.op = "clear" =>
          /\ cache = <<>>
          /\ order = <<>>
          /\ CacheInfo = [hits |-> 0, misses |-> 0, maxsize |-> maxsize,
                          currsize |-> 0]
    /\ \A i, j \in DOMAIN log :
          ( /\ i < j
            /\ log[i].op = "clear"
            /\ log[j].op = "call"
            /\ \A k \in (i + 1) .. (j - 1) : log[k].op = "info" )
          => /\ log[j].ran = 1
             /\ j = Len(log) => hits = 0 /\ misses = 1 /\ log[j].arg \in DOMAIN cache

\* The notebook's cells 13 to 15: a hit with 2, cache_clear(), and the call
\* with 2 again.
C2_Witness ==
    /\ LogEnds(<< <<"call", 2>>, <<"clear", 0>>, <<"call", 2>> >>)
    /\ log[Len(log) - 2].ran = 0
    /\ Last.ran = 1

\* C3: cache_info() reports hits + misses equal to the calls since the last
\* cache_clear, misses equal to the executions of the body, and currsize equal
\* to the number of distinct arguments held; after the calls (2), (2), (5) it
\* is CacheInfo(hits=1, misses=2, maxsize=128, currsize=2).
C3_CacheInfoCounts ==
    Last.op = "info" =>
       /\ info.hits + info.misses = nCalls
       /\ info.misses = nExec
       /\ info.currsize = Cardinality(Range(order))
       /\ info.currsize = Len(order)
       /\ info.maxsize = 128
       /\ ( nCalls = 3 /\ LogEnds(<< <<"call", 2>>, <<"call", 2>>, <<"call", 5>>,
                                     <<"info", 0>> >>) )
          => info = [hits |-> 1, misses |-> 2, maxsize |-> 128, currsize |-> 2]

\* The notebook's cells 9 to 12.
C3_Witness ==
    /\ nCalls = 3
    /\ LogEnds(<< <<"call", 2>>, <<"call", 2>>, <<"call", 5>>, <<"info", 0>> >>)
    /\ info.hits = 1

\* C8: results are cached per argument: a call is a hit only if the same
\* argument was passed since the last cache_clear, a call leaves every other
\* argument's entry as it was, and once 2 and 5 have both been passed each of
\* them is a hit, in whichever order they are called.
C8_PerArgument ==
    [][\A a \in Coeffs :
          CallOf(a) =>
             /\ Last'.ran = 0 <=> a \in seen
             /\ \A b \in Coeffs \ {a} :
                   (b \in DOMAIN cache') = (b \in DOMAIN cache)
      ]_vars

\* 2 then 5 executed the body, and then 5 and 2 were hits in the other order.
C8_Witness ==
    /\ LogEnds(<< <<"call", 2>>, <<"call", 5>>, <<"call", 5>>, <<"call", 2>> >>)
    /\ log[Len(log) - 3].ran = 1
    /\ log[Len(log) - 2].ran = 1
    /\ log[Len(log) - 1].ran = 0
    /\ Last.ran = 0

(***************************************************************************)
(* Properties of the ExtendedFolder versions.                              *)
(***************************************************************************)
\* The first two get_img_dims calls on instance d of class version v are the
\* cell's: analytics.get_dim_counts(), then get_noise_masks(...).
IsCell(v, d) ==
    /\ Len(gets[v][d]) >= 2
    /\ gets[v][d][1].op = "counts"
    /\ gets[v][d][2].op = "masks"

\* Counter({(10, 20): 2, (40, 40): 1})
DimCounts == [k \in {<<10, 20>>, <<40, 40>>} |-> IF k = <<10, 20>> THEN 2 ELSE 1]

\* C4: get_dim_counts() followed by get_noise_masks(dataset.get_img_dims()) on
\* one instance executes the expensive body once with lru_cache() and twice
\* without; both calls obtain the list [(10, 20), (10, 20), (40, 40)] (with
\* lru_cache the same list object), and get_dim_counts yields
\* Counter({(10, 20): 2, (40, 40): 1}).
C4_OneExecution ==
    \A d \in Datasets :
       /\ IsCell("lru", d) =>
             LET g == gets["lru"][d] IN
             /\ g[1].ran + g[2].ran = 1
             /\ g[1].ret = g[2].ret
             /\ g[1].ret.items = IMG_DIMS
             /\ g[1].out = DimCounts
             /\ g[2].out = [i \in 1 .. 3 |-> [shape |-> IMG_DIMS[i]]]
       /\ IsCell("plain", d) =>
             LET g == gets["plain"][d] IN
             /\ g[1].ran + g[2].ran = 2
             /\ g[1].ret.items = IMG_DIMS
             /\ g[2].ret.items = IMG_DIMS
             /\ g[1].out = DimCounts

\* Cells 3 and 7 have both run on their instances.
C4_Witness ==
    \E d, e \in Datasets :
       /\ IsCell("lru", d)
       /\ IsCell("plain", e)
       /\ sleeps["lru"][d] = 1
       /\ sleeps["plain"][e] = 2

\* C9: on one instance the hand-written cache and the lru_cache version agree
\* call by call: the i-th get_img_dims call returns the same list in both, and
\* both execute the expensive computation on the first call and never again.
C9_ManualEqualsLru ==
    \A d \in Datasets :
       /\ \A i \in DOMAIN gets["manual"][d] \cap DOMAIN gets["lru"][d] :
             /\ gets["manual"][d][i].ret = gets["lru"][d][i].ret
             /\ gets["manual"][d][i].ran = gets["lru"][d][i].ran
       /\ \A v \in {"manual", "lru"} :
             /\ \A i \in DOMAIN gets[v][d] :
                   gets[v][d][i].ran = (IF i = 1 THEN 1 ELSE 0)
             /\ sleeps[v][d] = (IF gets[v][d] = <<>> THEN 0 ELSE 1)

\* Both versions have answered two calls on one instance.
C9_Witness ==
    \E d \in Datasets :
       /\ Len(gets["manual"][d]) >= 2
       /\ Len(gets["lru"][d]) >= 2
       /\ sleeps["manual"][d] = 1
       /\ sleeps["lru"][d] = 1

(***************************************************************************)
(* Properties of the loops and assignments of passing_data_around.         *)
(***************************************************************************)
\* The elements of the loop's iterable, as the notebook writes them.
Elements == IF prog.iterable.kind = "zip" THEN Zip(prog.iterable.data)
            ELSE prog.iterable.data

\* The element the for statement took last.
CurElem == Elements[Len(Elements) - Len(it)]

StarLast(tgt) == tgt.star # "" /\ tgt.before = <<>> /\ Len(tgt.after) = 1

NotEnough_1_0 == "ValueError: not enough values to unpack (expected at least 1, got 0)"

\* C5: in `for *x, y in train_set` (and `for *all_but_last, last in lst`) every
\* element of length n >= 1 is unpacked: the last name is bound to its last
\* item and the starred name to the list of its first n-1 items in order (the
\* empty list when n = 1); [0, 1, 2, 3, 'last'] gives [0, 1, 2, 3] and 'last'.
C5_StarLast ==
    (prog.kind = "for" /\ StarLast(prog.target) /\ pc \in {"body", "error"}) =>
       LET e == CurElem
           n == Len(e)
           starred == prog.target.star
           lastName == prog.target.after[1]
       IN  /\ (pc = "body") =>
                /\ n >= 1
                /\ env.single[lastName] = e[n]
                /\ env.star[starred] = [i \in 1 .. (n - 1) |-> e[i]]
                /\ Len(env.star[starred]) = n - 1
                /\ e = <<"0", "1", "2", "3", "last">> =>
                      /\ env.star[starred] = <<"0", "1", "2", "3">>
                      /\ env.single[lastName] = "last"
           /\ (pc = "error" /\ err = NotEnough_1_0) => n = 0
           /\ (pc = "error" /\ n >= 1) => calls = <<>> /\ err # NotEnough_1_0

\* Cell 4: the loop has bound all_but_last and last for [0, 1, 2, 3, 'last'].
C5_Witness ==
    /\ pc = "body"
    /\ prog.target = T_all_but_last
    /\ CurElem = <<"0", "1", "2", "3", "last">>
    /\ env.star["all_but_last"] = <<"0", "1", "2", "3">>

TooMany_2 == "ValueError: too many values to unpack (expected 2)"

\* C6: `for x, y in train_set` over a zip of three arrays fails on the first
\* element with ValueError "too many values to unpack (expected 2)"; the model
\* is never called.
C6_TooManyValues ==
    ( /\ prog.kind = "for"
      /\ prog.target = T_x_y
      /\ Len(prog.iterable.data) = 3 ) =>
       /\ calls = <<>>
       /\ pc \in {"iter", "error"}
       /\ pc = "iter" => it = Elements /\ err = None
       /\ pc = "error" => err = TooMany_2 /\ Len(it) = Len(Elements) - 1

\* Cell 2 has raised its ValueError.
C6_Witness ==
    /\ pc = "error"
    /\ prog.kind = "for"
    /\ prog.target = T_x_y
    /\ prog.model = "EmbeddingModel"
    /\ prog.iterable.data = <<cont_values, embedding_idxs, ys>>
    /\ err = TooMany_2
    /\ calls = <<>>

\* C7: `frst, *mid, last = it` with `it` a list l of k >= 2 items, or a
\* generator over l, binds frst to l[1], last to l[k] and mid to the k-2 items
\* in between, in order; `*everything, = it` binds everything to the list of
\* all items, [0, 1, 2, 3, 4] for range(5).
C7_FirstMidLast ==
    (prog.kind = "assign" /\ pc # "assign") =>
       /\ (prog.target = T_frst_mid_last /\ prog.iterable.kind \in {"list", "gen"}) =>
             LET l == prog.iterable.data
                 k == Len(l)
             IN  /\ pc = "done" <=> k >= 2
                 /\ pc = "done" =>
                       /\ env.single["frst"] = l[1]
                       /\ env.single["last"] = l[k]
                       /\ env.star["mid"] = [i \in 1 .. (k - 2) |-> l[i + 1]]
       /\ (prog.target = T_everything) =>
             /\ pc = "done"
             /\ prog.iterable.kind \in {"list", "gen"} =>
                   env.star["everything"] = prog.iterable.data
             /\ (prog.iterable.kind = "range" /\ prog.iterable.n = 5) =>
                   env.star["everything"] = <<"0", "1", "2", "3", "4">>

\* Cell 6: the generator over ['first', 0, 1, 2, 'last'] has been unpacked.
C7_Witness ==
    /\ pc = "done"
    /\ prog.kind = "assign"
    /\ prog.target = T_frst_mid_last
    /\ prog.iterable.kind = "gen"
    /\ prog.iterable.data = <<"first", "0", "1", "2", "last">>
    /\ env.star["mid"] = <<"0", "1", "2">>

\* C10: in `for *x, y in train_set: em(*x, y)` every call of the model receives
\* the items of the training tuple of its turn, in order and as many; when the
\* tuples have as many items as forward has parameters (two for Model, three
\* for EmbeddingModel) the loop ends having called the model once per example,
\* in input order.
C10_RoundTrip ==
    (prog.kind = "for" /\ prog.body = "call_star") =>
       /\ Len(calls) <= Len(Elements)
       /\ \A i \in DOMAIN calls : calls[i] = Elements[i]
       /\ Len(prog.iterable.data) = Len(Params(prog.model)) =>
             /\ pc # "error"
             /\ pc = "done" => calls = Elements
             /\ pc = "body" => env.star["x"] \o <<env.single["y"]>> = CurElem

\* Cell 3 has ended: EmbeddingModel was called with both 3-item examples.
C10_Witness ==
    /\ pc = "done"
    /\ prog.kind = "for"
    /\ prog.body = "call_star"
    /\ prog.model = "EmbeddingModel"
    /\ prog.iterable.data = <<cont_values, embedding_idxs, ys>>
    /\ calls = << <<"[1.7]", "[1]", "[2]">>, <<"[0.3]", "[3]", "[4]">> >>

\* C11: currsize never exceeds maxsize (128): an argument is held exactly
\* while fewer than maxsize other arguments have been used since its latest
\* call, so a miss on a full cache evicts the least recently used argument
\* and stores the new one, and a later call with an evicted argument executes
\* the body again.
C11_BoundedLru ==
    /\ [](/\ CacheInfo.currsize <= maxsize
          /\ Len(order) <= maxsize
          /\ \A a \in seen :
                a \in DOMAIN cache <=> Cardinality(usedSince[a]) < maxsize)
    /\ [][\A a \in SweepCoeffs :
             CallOf(a) =>
                /\ (a \notin DOMAIN cache /\ CacheInfo.currsize = maxsize) =>
                      /\ CacheInfo'.currsize = maxsize
                      /\ a \in DOMAIN cache'
                      /\ \E e \in DOMAIN cache :
                            /\ DOMAIN cache \ DOMAIN cache' = {e}
                            /\ \A k \in DOMAIN cache :
                                  Cardinality(usedSince[k]) <=
                                     Cardinality(usedSince[e])
                /\ (a \in seen /\ a \notin DOMAIN cache) =>
                      nExec' = nExec + 1 /\ Last'.ran = 1
         ]_vars

\* The cache is full, argument 2 was evicted by newer arguments and has been
\* called again: the body ran once more for it, and storing it evicted the
\* least recently used argument, 3.
C11_Witness ==
    /\ CacheInfo.currsize = maxsize
    /\ Last.op = "call"
    /\ Last.arg = 2
    /\ Last.ran = 1
    /\ nExec > Cardinality(seen)
    /\ 2 \in DOMAIN cache
    /\ 3 \in seen \ DOMAIN cache
    /\ 4 \in DOMAIN cache

\* C12: between two cache_clear calls a hit returns what the argument's first
\* miss stored and runs nothing, whatever arr_A has become since: what the body
\* last computed for the argument stays the product with the array of that
\* miss.  An assignment to arr_A leaves the cache alone.  The body runs again
\* for an argument passed before only after cache_clear or after the argument
\* was evicted, and that run reads the current arr_A.
C12_StaleUntilCleared ==
    [][/\ \A a \in SweepCoeffs :
             CallOf(a) =>
                /\ (a \in DOMAIN cache) =>
                      /\ Last'.ret = cache[a]
                      /\ Last'.ran = 0
                      /\ nExec' = nExec
                      /\ computed' = computed
                /\ (a \notin DOMAIN cache) =>
                      /\ Last'.ran = 1
                      /\ cache'[a] = Last'.ret
                      /\ (a \in Coeffs) => computed'[a] = Product(arr_A, a)
                /\ (a \in seen /\ Last'.ran = 1) =>
                      Cardinality(usedSince[a]) >= maxsize
       /\ \A k \in DOMAIN cache \cap DOMAIN cache' : cache'[k] = cache[k]
       /\ (arr_A' # arr_A) =>
             /\ cache' = cache
             /\ computed' = computed
             /\ seen' = seen
       /\ (nCalls' >= nCalls) => \A a \in DOMAIN computed : a \in DOMAIN computed'
      ]_vars

\* arr_A was changed after the first miss of argument 2, and the latest call
\* with 2 was a hit: nothing was recomputed, and what the body computed for 2
\* is still the product with the old array.
C12_Witness ==
    /\ Last.op = "call"
    /\ Last.arg = 2
    /\ Last.ran = 0
    /\ Last.ret = cache[2]
    /\ 2 \in DOMAIN computed
    /\ computed[2] # Product(arr_A, 2)

\* Argument 2 was evicted and called again after arr_A had changed: the body
\* ran again and computed the product with the new array.
C12_WitnessRecomputed ==
    /\ Last.op = "call"
    /\ Last.arg = 2
    /\ Last.ran = 1
    /\ nExec > Cardinality(seen)
    /\ computed[2] = Product(arr_A, 2)
    /\ 5 \in DOMAIN computed
    /\ computed[5] # Product(arr_A, 5)

====
